---- MODULE Spec2Model ----
(***************************************************************************)
(* A model of the Camera class of src/lib/Camera.ts: discovery of the      *)
(* camera devices (permission, enumeration, per-device probes, facingMode  *)
(* fallback probes) and the navigation operations (viewCameraStream,       *)
(* toggleCurrentCamera, switchCameraDirection) with their asynchronous     *)
(* stream acquisitions.  The host API (navigator.mediaDevices, timers, the *)
(* video element) is the environment: every request it is handed settles   *)
(* in a separate step, with either outcome.                                *)
(*                                                                         *)
(* Indices are 0-based as in the source; sequences are 1-based, so the     *)
(* entry at cursor i of a list is list[i + 1].                             *)
(***************************************************************************)
EXTENDS Integers, Sequences, FiniteSets, TLC

\* ------------------------------------------------------------------ bounds
\* Largest number of video-input devices the enumeration returns.
MaxDevices == 2
\* Largest number of navigation calls that issue a request in one run.
MaxCalls == 3

\* ------------------------------------------------------------- data model
NoId == ""
NoStream == 0
\* Two stream handles are enough: a fresh stream differs from the attached one.
Streams == {1, 2}

DeviceIdTable == <<"d1", "d2", "d3", "d4">>

FrontCameraLabel == <<"F","r","o","n","t"," ","C","a","m","e","r","a">>
BackCameraLabel == <<"B","a","c","k"," ","C","a","m","e","r","a">>
FrontCamLabel == <<"F","r","o","n","t"," ","C","a","m">>
BackCamLabel == <<"B","a","c","k"," ","C","a","m">>
DeviceLabels == {FrontCameraLabel, BackCameraLabel}

\* ICameraConstraints, reduced to what the code varies: whether the preferred
\* width/height are present, the exact deviceId and the exact facingMode.
NoConstraints == [dims |-> FALSE, deviceId |-> NoId, facingMode |-> NoId]
\* A faulty variant of DeviceConstraints: width and height are never dropped.
DeviceConstraints_KeepsDims(id, withDims) == [dims |-> TRUE, deviceId |-> id, facingMode |-> NoId]
DeviceConstraints(id, withDims) == [dims |-> withDims, deviceId |-> id, facingMode |-> NoId]
FacingConstraints(mode) == [dims |-> FALSE, deviceId |-> NoId, facingMode |-> mode]

\* ICamera: deviceId, label, workingConstraints (unset: NoConstraints).
Descriptor(id, label, wc) == [deviceId |-> id, label |-> label, workingConstraints |-> wc]
NoCamera == Descriptor(NoId, <<>>, NoConstraints)
UserDevice == Descriptor("user", FrontCamLabel, NoConstraints)
EnvironmentDevice == Descriptor("environment", BackCamLabel, NoConstraints)

\* A descriptor a caller built itself: it is in none of the manager's lists.
ForeignCameras == {Descriptor("x", BackCameraLabel, DeviceConstraints("x", FALSE))}

\* String.prototype.toLowerCase, on the letters the labels use.
ToLowerChar(c) ==
    CASE c = "B" -> "b"
      [] c = "C" -> "c"
      [] c = "F" -> "f"
      [] OTHER -> c
ToLowerCase(s) == [i \in 1..Len(s) |-> ToLowerChar(s[i])]

\* String.prototype.includes
Includes(s, sub) ==
    \E k \in 0..(Len(s) - Len(sub)) : SubSeq(s, k + 1, k + Len(sub)) = sub

BackWord == <<"b","a","c","k">>


\* label.toLowerCase().includes('back') ? 'Rear' : 'Front'
DirectionOfLabel(label) == IF Includes(ToLowerCase(label), BackWord) THEN "Rear" ELSE "Front"

\* A faulty variant of FindIndex: positions are counted from 1.
FindIndex_OneBased(list, id) ==
    IF \E k \in 1..Len(list) : list[k].deviceId = id
    THEN CHOOSE k \in 1..Len(list) :
             /\ list[k].deviceId = id
             /\ \A j \in 1..(k - 1) : list[j].deviceId # id
    ELSE -1

\* Array.prototype.findIndex(c => c.deviceId === id): -1 when there is none.
FindIndex(list, id) ==
    IF \E k \in 1..Len(list) : list[k].deviceId = id
    THEN (CHOOSE k \in 1..Len(list) :
             /\ list[k].deviceId = id
             /\ \A j \in 1..(k - 1) : list[j].deviceId # id) - 1
    ELSE -1

\* list[i]: undefined (NoCamera) outside the list.
At(list, i) == IF i \in 0..(Len(list) - 1) THEN list[i + 1] ELSE NoCamera

\* The results enumerateDevices can resolve with: up to MaxDevices video inputs.
EnumerationResults ==
    UNION {[1..n -> DeviceLabels] : n \in 0..MaxDevices}

VARIABLES
    isLoading, allCameras, rearCameras, frontCameras,
    currFrontIndex, currRearIndex, currDirection, isStreaming, currCamera,
    srcObject,          \* videoPlayer.srcObject
    consoleErrors,      \* what console.error has reported
    ipc,                \* where the initialisation chain stands
    loaded,             \* loadCameras' counter
    probes,             \* per enumerated device: its probe's state
    userProbe, envProbe,                          \* the facingMode fallback probes
    checkedUserFacing, checkedEnvironmentFacing,  \* checkCamerasLoaded's locals
    inflight,           \* viewCameraStream's acquisitions not yet settled, in call order
    calls               \* navigation calls made so far that issued a request

mgr == <<isLoading, allCameras, rearCameras, frontCameras,
         currFrontIndex, currRearIndex, currDirection, isStreaming, currCamera,
         srcObject, consoleErrors>>
initVars == <<ipc, loaded, probes, userProbe, envProbe,
              checkedUserFacing, checkedEnvironmentFacing>>
vars == <<mgr, initVars, inflight, calls>>

\* The selection bookkeeping and the rendering target.
Selection ==
    [isStreaming |-> isStreaming, currCamera |-> currCamera,
     currDirection |-> currDirection, currFrontIndex |-> currFrontIndex,
     currRearIndex |-> currRearIndex, srcObject |-> srcObject]

\* A navigation request: the device asked for and the public operation that
\* issued it.  For the record it carries the selection before that operation
\* (pre) and before its viewCameraStream call (preView), and whether no other
\* acquisition has succeeded since (clean) and whether the acquisition of a later
\* call has (overtaken).
Request(dev, op, pre, preView) ==
    [dev |-> dev, op |-> op, pre |-> pre, preView |-> preView, clean |-> TRUE,
     overtaken |-> FALSE]

Init ==
    /\ isLoading = TRUE
    /\ allCameras = <<>>
    /\ rearCameras = <<>>
    /\ frontCameras = <<>>
    /\ currFrontIndex = 0
    /\ currRearIndex = 0
    /\ currDirection = "Rear"
    /\ isStreaming = FALSE
    /\ currCamera = NoCamera
    /\ srcObject = NoStream
    /\ consoleErrors = {}
    /\ ipc = "timer"
    /\ loaded = 0
    /\ probes = <<>>
    /\ userProbe = "none"
    /\ envProbe = "none"
    /\ checkedUserFacing = FALSE
    /\ checkedEnvironmentFacing = FALSE
    /\ inflight = <<>>
    /\ calls = 0

\* ---------------------------------------------------------- initialisation
navVars == <<currFrontIndex, currRearIndex, currDirection, isStreaming, currCamera,
             srcObject, inflight, calls>>

ApiNotSupportedError == "Cannot get camera devices. API not supported."
PermissionError == "Failed to get necessary camera permissions"
EnumerationError == "Error enumerating devices"
NoCamerasError == "No cameras available to stream from."
CameraNotAvailableError == "Camera not available."

\* getCamerasAndPermissions' timer callback: the API check, then the permission
\* request is issued.
InitTimer ==
    /\ ipc = "timer"
    /\ \E supported \in BOOLEAN :
         IF supported
         THEN /\ isLoading' = TRUE
              /\ ipc' = "permission"
              /\ UNCHANGED consoleErrors
         ELSE /\ consoleErrors' = consoleErrors \cup {ApiNotSupportedError}
              /\ ipc' = "unsupported"
              /\ UNCHANGED isLoading
    /\ UNCHANGED <<allCameras, rearCameras, frontCameras, navVars, loaded, probes,
                   userProbe, envProbe, checkedUserFacing, checkedEnvironmentFacing>>

\* getUserMedia({audio: false, video: true}) resolves: getCameras is called.
PermissionGranted ==
    /\ ipc = "permission"
    /\ ipc' = "enumerate"
    /\ UNCHANGED <<mgr, loaded, probes, userProbe, envProbe,
                   checkedUserFacing, checkedEnvironmentFacing, inflight, calls>>

\* ... or rejects: the catch logs and the chain ends.
PermissionDenied ==
    /\ ipc = "permission"
    /\ ipc' = "denied"
    /\ consoleErrors' = consoleErrors \cup {PermissionError}
    /\ UNCHANGED <<isLoading, allCameras, rearCameras, frontCameras, navVars, loaded,
                   probes, userProbe, envProbe, checkedUserFacing,
                   checkedEnvironmentFacing>>

\* enumerateDevices resolves: getCameras keeps the video inputs, and loadCameras
\* issues the first probe of every device in one forEach; with no device no
\* callback is left.
EnumerateResolve ==
    /\ ipc = "enumerate"
    /\ \E labels \in EnumerationResults :
         /\ allCameras' = [i \in 1..Len(labels) |->
                              Descriptor(DeviceIdTable[i], labels[i], NoConstraints)]
         /\ probes' = [i \in 1..Len(labels) |-> "first"]
         /\ ipc' = IF Len(labels) = 0 THEN "idle" ELSE "probing"
    /\ loaded' = 0
    /\ UNCHANGED <<isLoading, rearCameras, frontCameras, navVars, consoleErrors,
                   userProbe, envProbe, checkedUserFacing, checkedEnvironmentFacing>>

\* enumerateDevices rejects: getCameras logs and returns false.
EnumerateReject ==
    /\ ipc = "enumerate"
    /\ ipc' = "enumFailed"
    /\ consoleErrors' = consoleErrors \cup {EnumerationError}
    /\ UNCHANGED <<isLoading, allCameras, rearCameras, frontCameras, navVars, loaded,
                   probes, userProbe, envProbe, checkedUserFacing,
                   checkedEnvironmentFacing>>

\* A faulty variant of CheckStream: the device is pushed whatever the outcome.
CheckStream_IgnoresOutcome(device, constraints, ok) ==
    LET d == [device EXCEPT !.workingConstraints = constraints]
        rearCam == Includes(ToLowerCase(device.label), BackWord)
    IN  [front |-> IF ~rearCam THEN Append(frontCameras, d) ELSE frontCameras,
         rear  |-> IF rearCam THEN Append(rearCameras, d) ELSE rearCameras]

\* checkStream's then/catch, given the outcome of its getUserMedia: on success
\* the device, with the constraints that worked, is pushed to the list its label
\* names.  The value is the two lists afterwards.
CheckStream(device, constraints, ok) ==
    LET d == [device EXCEPT !.workingConstraints = constraints]
        rearCam == Includes(ToLowerCase(device.label), BackWord)
    IN  [front |-> IF ok /\ ~rearCam THEN Append(frontCameras, d) ELSE frontCameras,
         rear  |-> IF ok /\ rearCam THEN Append(rearCameras, d) ELSE rearCameras]

\* A faulty variant of CheckCamerasLoaded: unless both lists hold a camera, both
\* facingMode probes are issued.
CheckCamerasLoaded_ProbesBoth(f, r) ==
    IF Len(allCameras) > 0 /\ Len(f) > 0 /\ Len(r) > 0
    THEN /\ isLoading' = FALSE
         /\ ipc' = "idle"
         /\ UNCHANGED <<userProbe, envProbe, checkedUserFacing, checkedEnvironmentFacing>>
    ELSE /\ checkedUserFacing' = FALSE
         /\ checkedEnvironmentFacing' = FALSE
         /\ userProbe' = "inflight"
         /\ envProbe' = "inflight"
         /\ ipc' = "fallback"
         /\ UNCHANGED isLoading

\* A faulty variant of CheckCamerasLoaded: loading ends when the facingMode
\* probes are issued, not when they have settled.
CheckCamerasLoaded_EndsLoadingAtOnce(f, r) ==
    /\ isLoading' = FALSE
    /\ IF Len(allCameras) > 0 /\ Len(f) > 0 /\ Len(r) > 0
       THEN /\ ipc' = "idle"
            /\ UNCHANGED <<userProbe, envProbe, checkedUserFacing,
                           checkedEnvironmentFacing>>
       ELSE /\ checkedUserFacing' = FALSE
            /\ checkedEnvironmentFacing' = FALSE
            /\ userProbe' = IF Len(f) = 0 THEN "inflight" ELSE "none"
            /\ envProbe' = IF Len(r) = 0 THEN "inflight" ELSE "none"
            /\ ipc' = "fallback"

\* checkCamerasLoaded, run with the lists f and r: loading ends when both hold a
\* camera; otherwise a facingMode probe is issued for each empty direction.
CheckCamerasLoaded(f, r) ==
    IF Len(allCameras) > 0 /\ Len(f) > 0 /\ Len(r) > 0
    THEN /\ isLoading' = FALSE
         /\ ipc' = "idle"
         /\ UNCHANGED <<userProbe, envProbe, checkedUserFacing, checkedEnvironmentFacing>>
    ELSE /\ checkedUserFacing' = FALSE
         /\ checkedEnvironmentFacing' = FALSE
         /\ userProbe' = IF Len(f) = 0 THEN "inflight" ELSE "none"
         /\ envProbe' = IF Len(r) = 0 THEN "inflight" ELSE "none"
         /\ ipc' = "fallback"
         /\ UNCHANGED isLoading

\* A faulty variant of CountLoaded: the completion check runs after every device.
CountLoaded_ChecksEveryTime(f, r) ==
    /\ loaded' = loaded + 1
    /\ CheckCamerasLoaded(f, r)

\* The continuation of a device's probe chain in loadCameras: count the device
\* and run checkCamerasLoaded after the last one.
CountLoaded(f, r) ==
    /\ loaded' = loaded + 1
    /\ IF loaded + 1 = Len(allCameras)
       THEN CheckCamerasLoaded(f, r)
       ELSE UNCHANGED <<isLoading, ipc, userProbe, envProbe,
                        checkedUserFacing, checkedEnvironmentFacing>>

\* The first probe of device i (exact deviceId, preferred width and height)
\* succeeds.
ProbeFirstOk(i) ==
    /\ ipc = "probing"
    /\ probes[i] = "first"
    /\ LET c == DeviceConstraints(allCameras[i].deviceId, TRUE)
           res == CheckStream(allCameras[i], c, TRUE)
       IN  /\ frontCameras' = res.front
           /\ rearCameras' = res.rear
           /\ allCameras' = [allCameras EXCEPT ![i].workingConstraints = c]
           /\ CountLoaded(res.front, res.rear)
    /\ probes' = [probes EXCEPT ![i] = "ok"]
    /\ UNCHANGED <<navVars, consoleErrors>>

\* The first probe of device i fails: loadCameras drops width and height and
\* probes again.
ProbeFirstFail(i) ==
    /\ ipc = "probing"
    /\ probes[i] = "first"
    /\ probes' = [probes EXCEPT ![i] = "retry"]
    /\ consoleErrors' = consoleErrors \cup {CameraNotAvailableError}
    /\ UNCHANGED <<isLoading, allCameras, rearCameras, frontCameras, navVars, ipc,
                   loaded, userProbe, envProbe, checkedUserFacing,
                   checkedEnvironmentFacing>>

\* The retry of device i (exact deviceId only) settles.
ProbeRetrySettle(i, ok) ==
    /\ ipc = "probing"
    /\ probes[i] = "retry"
    /\ LET c == DeviceConstraints(allCameras[i].deviceId, FALSE)
           res == CheckStream(allCameras[i], c, ok)
       IN  /\ frontCameras' = res.front
           /\ rearCameras' = res.rear
           /\ allCameras' = IF ok THEN [allCameras EXCEPT ![i].workingConstraints = c]
                            ELSE allCameras
           /\ CountLoaded(res.front, res.rear)
    /\ probes' = [probes EXCEPT ![i] = IF ok THEN "okRetry" ELSE "failed"]
    /\ consoleErrors' = IF ok THEN consoleErrors
                       ELSE consoleErrors \cup {CameraNotAvailableError}
    /\ UNCHANGED navVars

\* The facingMode 'user' probe of checkCamerasLoaded settles.
UserProbeSettle(ok) ==
    /\ userProbe = "inflight"
    /\ LET res == CheckStream(UserDevice, FacingConstraints("user"), ok)
       IN  /\ frontCameras' = res.front
           /\ rearCameras' = res.rear
    /\ userProbe' = IF ok THEN "ok" ELSE "failed"
    /\ checkedUserFacing' = TRUE
    /\ isLoading' = IF checkedEnvironmentFacing THEN FALSE ELSE isLoading
    /\ ipc' = IF envProbe = "inflight" THEN ipc ELSE "idle"
    /\ consoleErrors' = IF ok THEN consoleErrors
                       ELSE consoleErrors \cup {CameraNotAvailableError}
    /\ UNCHANGED <<allCameras, navVars, loaded, probes, envProbe,
                   checkedEnvironmentFacing>>

\* The facingMode 'environment' probe of checkCamerasLoaded settles.
EnvironmentProbeSettle(ok) ==
    /\ envProbe = "inflight"
    /\ LET res == CheckStream(EnvironmentDevice, FacingConstraints("environment"), ok)
       IN  /\ frontCameras' = res.front
           /\ rearCameras' = res.rear
    /\ envProbe' = IF ok THEN "ok" ELSE "failed"
    /\ checkedEnvironmentFacing' = TRUE
    /\ isLoading' = IF checkedUserFacing THEN FALSE ELSE isLoading
    /\ ipc' = IF userProbe = "inflight" THEN ipc ELSE "idle"
    /\ consoleErrors' = IF ok THEN consoleErrors
                       ELSE consoleErrors \cup {CameraNotAvailableError}
    /\ UNCHANGED <<allCameras, navVars, loaded, probes, userProbe,
                   checkedUserFacing>>

\* ------------------------------------------------------------- navigation
\* A faulty variant of CanToggleLenses: one camera is enough.
CanToggleLenses_OneIsEnough ==
    IF currDirection = "Front" THEN Len(frontCameras) > 0
    ELSE IF currDirection = "Rear" THEN Len(rearCameras) > 0
    ELSE FALSE

\* Has more than 1 available camera in the current direction (lines 59-68).
CanToggleLenses ==
    IF currDirection = "Front" THEN Len(frontCameras) > 1
    ELSE IF currDirection = "Rear" THEN Len(rearCameras) > 1
    ELSE FALSE

\* A faulty variant of CanSwitchCameraDirections: one direction is enough.
CanSwitchCameraDirections_Either == Len(rearCameras) > 0 \/ Len(frontCameras) > 0

\* Has both front and rear cameras (lines 71-73).
CanSwitchCameraDirections == Len(rearCameras) > 0 /\ Len(frontCameras) > 0

\* A faulty variant of ResolveDevice: the last streamed device is not preferred.
ResolveDevice_IgnoresCurrCamera(cameraDevice, fi, ri) ==
    IF cameraDevice # NoCamera THEN [error |-> FALSE, dev |-> cameraDevice]
    ELSE IF currDirection = "Front" /\ Len(frontCameras) > 0
         THEN [error |-> FALSE, dev |-> At(frontCameras, fi)]
    ELSE IF currDirection = "Rear" /\ Len(rearCameras) > 0
         THEN [error |-> FALSE, dev |-> At(rearCameras, ri)]
    ELSE IF Len(rearCameras) > 0 THEN [error |-> FALSE, dev |-> At(rearCameras, ri)]
    ELSE IF Len(frontCameras) > 0 THEN [error |-> FALSE, dev |-> At(frontCameras, fi)]
    ELSE [error |-> TRUE, dev |-> NoCamera]

\* viewCameraStream's choice of a device when it is given none (lines 123-142),
\* with the cursors fi and ri: error is the 'No cameras available' return.
ResolveDevice(cameraDevice, fi, ri) ==
    IF cameraDevice # NoCamera THEN [error |-> FALSE, dev |-> cameraDevice]
    ELSE IF currCamera # NoCamera THEN [error |-> FALSE, dev |-> currCamera]
    ELSE IF currDirection = "Front" /\ Len(frontCameras) > 0
         THEN [error |-> FALSE, dev |-> At(frontCameras, fi)]
    ELSE IF currDirection = "Rear" /\ Len(rearCameras) > 0
         THEN [error |-> FALSE, dev |-> At(rearCameras, ri)]
    ELSE IF currDirection = "Front" /\ Len(frontCameras) = 0 /\ Len(rearCameras) > 0
         THEN [error |-> FALSE, dev |-> At(rearCameras, ri)]
    ELSE IF currDirection = "Rear" /\ Len(rearCameras) = 0 /\ Len(frontCameras) > 0
         THEN [error |-> FALSE, dev |-> At(frontCameras, fi)]
    ELSE [error |-> TRUE, dev |-> NoCamera]

\* The body of viewCameraStream (lines 122-165) as called by operation op with
\* the cursors fi and ri: the target is detached, isStreaming is cleared and the
\* acquisition is left to a timer.  The timer's callback does nothing but hand
\* getUserMedia the device's workingConstraints, and timers fire in the order
\* they were set, so the request counts as pending from the call on.
ViewCameraStreamBody(cameraDevice, fi, ri, op) ==
    LET res == ResolveDevice(cameraDevice, fi, ri)
        preView == [Selection EXCEPT !.currFrontIndex = fi, !.currRearIndex = ri]
    IN  IF res.error
        THEN /\ consoleErrors' = consoleErrors \cup {NoCamerasError}
             /\ UNCHANGED <<srcObject, isStreaming, inflight, calls>>
        ELSE /\ calls < MaxCalls
             /\ calls' = calls + 1
             /\ srcObject' = NoStream
             /\ isStreaming' = FALSE
             /\ inflight' = Append(inflight, Request(res.dev, op, Selection, preView))
             /\ UNCHANGED consoleErrors

\* The descriptors a caller can pass: those the manager exposes, and its own.
CallerDevices ==
    {frontCameras[k] : k \in 1..Len(frontCameras)}
        \cup {rearCameras[k] : k \in 1..Len(rearCameras)}
        \cup ForeignCameras

\* Discovery has come to rest: none of its callbacks is pending, the lists are
\* final.  Callers navigate from then on.
InitAtRest == ipc \in {"idle", "unsupported", "denied", "enumFailed"}

\* viewCameraStream(videoPlayer, cameraDevice?)
ViewCameraStream ==
    /\ InitAtRest
    /\ \E cameraDevice \in CallerDevices \cup {NoCamera} :
         ViewCameraStreamBody(cameraDevice, currFrontIndex, currRearIndex, "view")
    /\ UNCHANGED <<isLoading, allCameras, rearCameras, frontCameras, currFrontIndex,
                   currRearIndex, currDirection, currCamera, initVars>>

\* A faulty variant of ToggleReturnsEarly: it returns while streaming.
ToggleReturnsEarly_WhileStreaming == ~CanToggleLenses \/ isStreaming

\* The early return of toggleCurrentCamera (lines 80-82).
ToggleReturnsEarly == ~CanToggleLenses \/ ~isStreaming

\* A faulty variant of NextIndex: it does not wrap.
NextIndex_NoWrap(i, list) == i + 1

\* The cursor toggleCurrentCamera moves to: the next one, 0 past the end.
NextIndex(i, list) == IF i + 1 >= Len(list) THEN 0 ELSE i + 1

\* toggleCurrentCamera(videoPlayer)
ToggleCurrentCamera ==
    /\ InitAtRest
    /\ IF ToggleReturnsEarly
       THEN UNCHANGED <<currFrontIndex, currRearIndex, srcObject, isStreaming,
                       inflight, consoleErrors, calls>>
       ELSE IF currDirection = "Front"
       THEN /\ currFrontIndex' = NextIndex(currFrontIndex, frontCameras)
            /\ ViewCameraStreamBody(At(frontCameras, currFrontIndex'),
                                    currFrontIndex', currRearIndex, "toggle")
            /\ UNCHANGED currRearIndex
       ELSE /\ currRearIndex' = NextIndex(currRearIndex, rearCameras)
            /\ ViewCameraStreamBody(At(rearCameras, currRearIndex'),
                                    currFrontIndex, currRearIndex', "toggle")
            /\ UNCHANGED currFrontIndex
    /\ UNCHANGED <<isLoading, allCameras, rearCameras, frontCameras,
                   currDirection, currCamera, initVars>>

\* The early return of switchCameraDirection (lines 104-106).
SwitchReturnsEarly == ~CanSwitchCameraDirections \/ ~isStreaming

\* switchCameraDirection(videoPlayer)
SwitchCameraDirection ==
    /\ InitAtRest
    /\ IF SwitchReturnsEarly
       THEN UNCHANGED <<srcObject, isStreaming, inflight, consoleErrors, calls>>
       ELSE IF currDirection = "Front"
       THEN ViewCameraStreamBody(At(rearCameras, currRearIndex),
                                 currFrontIndex, currRearIndex, "switch")
       ELSE ViewCameraStreamBody(At(frontCameras, currFrontIndex),
                                 currFrontIndex, currRearIndex, "switch")
    /\ UNCHANGED <<isLoading, allCameras, rearCameras, frontCameras, currFrontIndex,
                   currRearIndex, currDirection, currCamera, initVars>>

Remove(seq, k) == [j \in 1..(Len(seq) - 1) |-> IF j < k THEN seq[j] ELSE seq[j + 1]]

\* A stream object getUserMedia has just created: no stream seen before.
FreshStream == CHOOSE s \in Streams : s # srcObject

\* The request is no longer clean once another one's acquisition has succeeded.
Disturbed(reqs) == [j \in 1..Len(reqs) |-> [reqs[j] EXCEPT !.clean = FALSE]]

\* The first n requests, those of earlier calls, have been overtaken.
Overtaken(reqs, n) ==
    [j \in 1..Len(reqs) |-> IF j <= n THEN [reqs[j] EXCEPT !.overtaken = TRUE] ELSE reqs[j]]

\* The then-callback of the k-th pending acquisition (lines 149-162).  A request
\* without constraints asks for neither audio nor video and is always rejected,
\* and so is one for no device (reading its workingConstraints throws); where
\* the API is missing the timer's callback throws as well.
AcquireOk(k) ==
    /\ k \in 1..Len(inflight)
    /\ ipc # "unsupported"
    /\ inflight[k].dev.workingConstraints # NoConstraints
    /\ LET cameraDevice == inflight[k].dev
           dir == DirectionOfLabel(cameraDevice.label)
       IN  /\ currCamera' = cameraDevice
           /\ srcObject' = FreshStream
           /\ currDirection' = dir
           /\ currFrontIndex' = IF dir = "Front"
                                THEN FindIndex(frontCameras, cameraDevice.deviceId)
                                ELSE currFrontIndex
           /\ currRearIndex' = IF dir = "Rear"
                               THEN FindIndex(rearCameras, cameraDevice.deviceId)
                               ELSE currRearIndex
           /\ isStreaming' = TRUE
    /\ inflight' = Overtaken(Disturbed(Remove(inflight, k)), k - 1)
    /\ UNCHANGED <<isLoading, allCameras, rearCameras, frontCameras, consoleErrors,
                   initVars, calls>>

\* A faulty variant of AcquireFail: the device becomes currCamera although its
\* acquisition failed.
AcquireFail_AssignsCamera(k) ==
    /\ k \in 1..Len(inflight)
    /\ inflight' = Remove(inflight, k)
    /\ currCamera' = inflight[k].dev
    /\ UNCHANGED <<isLoading, allCameras, rearCameras, frontCameras, currFrontIndex,
                   currRearIndex, currDirection, isStreaming, srcObject, consoleErrors,
                   initVars, calls>>

\* The k-th pending acquisition is rejected: viewCameraStream has no catch.
AcquireFail(k) ==
    /\ k \in 1..Len(inflight)
    /\ inflight' = Remove(inflight, k)
    /\ UNCHANGED <<mgr, initVars, calls>>

\* ---------------------------------------------------------- specification
Next ==
    \/ InitTimer
    \/ PermissionGranted
    \/ PermissionDenied
    \/ EnumerateResolve
    \/ EnumerateReject
    \/ \E i \in 1..Len(allCameras) : ProbeFirstOk(i)
    \/ \E i \in 1..Len(allCameras) : ProbeFirstFail(i)
    \/ \E i \in 1..Len(allCameras), ok \in BOOLEAN : ProbeRetrySettle(i, ok)
    \/ \E ok \in BOOLEAN : UserProbeSettle(ok)
    \/ \E ok \in BOOLEAN : EnvironmentProbeSettle(ok)
    \/ ViewCameraStream
    \/ ToggleCurrentCamera
    \/ SwitchCameraDirection
    \/ \E k \in 1..Len(inflight) : AcquireOk(k)
    \/ \E k \in 1..Len(inflight) : AcquireFail(k)

Spec == Init /\ [][Next]_vars

\* ------------------------------------------------------------------ claims
ListOf(dir) == IF dir = "Front" THEN frontCameras ELSE rearCameras
CursorOf(sel, dir) == IF dir = "Front" THEN sel.currFrontIndex ELSE sel.currRearIndex
Opposite(dir) == IF dir = "Front" THEN "Rear" ELSE "Front"
Occurrences(list, id) == Cardinality({k \in 1..Len(list) : list[k].deviceId = id})
ProbesInFlight == {i \in 1..Len(probes) : probes[i] \in {"first", "retry"}}

\* C1 (as claimed): with the API supported, permission granted, at least one
\* video input enumerated and every probe settled, loading has ended.  The
\* chain is at "idle" with a camera exactly when all of that has happened.
C1_LoadingEnds == (ipc = "idle" /\ Len(allCameras) >= 1) => ~isLoading

\* C3 (as claimed): at no time are the probes of two enumerated devices in
\* flight together.
C3_ProbesSequential == Cardinality(ProbesInFlight) <= 1

\* What a caller can tell of the initialisation: isLoading, and the errors
\* logged by the initialisation chain.
InitializationResult ==
    IF ~isLoading THEN "ready"
    ELSE IF consoleErrors \cap {ApiNotSupportedError, PermissionError, EnumerationError} # {}
    THEN "failed"
    ELSE "loading"

\* C7 (as claimed): when the API is absent, the permission is denied or no
\* video input is enumerated, the initialisation ends in a failure the caller
\* is told of.
C7_InitFailureSurfaced ==
    (\/ ipc \in {"unsupported", "denied"}
     \/ (ipc = "idle" /\ Len(allCameras) = 0))
        => InitializationResult = "failed"

\* C5 (as claimed): once loading has ended every enumerated descriptor is in
\* exactly one of the two lists, exactly once.
C5_ExactlyOneList ==
    ~isLoading =>
        \A i \in 1..Len(allCameras) :
            Occurrences(frontCameras, allCameras[i].deviceId)
                + Occurrences(rearCameras, allCameras[i].deviceId) = 1

\* C5 (amended): once loading has ended an enumerated descriptor one of whose
\* probes succeeded is in exactly one of the two lists, exactly once, and one
\* whose probe and retry both failed is in neither.
C5_ExactlyOneListIfProbed ==
    ~isLoading =>
        \A i \in 1..Len(allCameras) :
            Occurrences(frontCameras, allCameras[i].deviceId)
                + Occurrences(rearCameras, allCameras[i].deviceId)
              = IF probes[i] \in {"ok", "okRetry"} THEN 1 ELSE 0

\* C5: loading has ended with a device whose two probes failed.
C5_Witness == ~isLoading /\ \E i \in 1..Len(allCameras) : probes[i] = "failed"


\* C2 (as claimed): when the acquisition of a viewCameraStream call fails, the
\* selection and the target are what they were right before the call.  Stated
\* for the calls no other acquisition's success came between.
C2_FailureRestoresState ==
    [][\A k \in 1..Len(inflight) :
          (AcquireFail(k) /\ inflight[k].clean)
              => Selection' = inflight[k].preView]_vars

\* C2 (amended): when the acquisition of a viewCameraStream call fails and no
\* other acquisition succeeded since the call, currCamera, currDirection and
\* both cursors are what they were right before the call, while isStreaming is
\* false and the target is detached, as the call left them.
C2_FailureKeepsSelection ==
    [][\A k \in 1..Len(inflight) :
          (AcquireFail(k) /\ inflight[k].clean)
              => Selection' = [inflight[k].preView EXCEPT !.isStreaming = FALSE,
                                                          !.srcObject = NoStream]]_vars

\* C2: a camera has streamed, and a later acquisition has failed.
C2_Witness == ~isStreaming /\ currCamera # NoCamera /\ inflight = <<>> /\ calls >= 2

\* C4 (as claimed): when the acquisition of a navigation call made while
\* streaming fails, isStreaming is false and both cursors are what they were
\* right before the call.  Stated for the calls no other acquisition's success
\* came between.
C4_FailureKeepsCursors ==
    [][\A k \in 1..Len(inflight) :
          (AcquireFail(k) /\ inflight[k].clean /\ inflight[k].pre.isStreaming)
              => /\ isStreaming' = FALSE
                 /\ currFrontIndex' = inflight[k].pre.currFrontIndex
                 /\ currRearIndex' = inflight[k].pre.currRearIndex]_vars

\* C6 (as claimed): the stream attached to the target never changes from one
\* stream straight to another.
C6_DetachedBetweenStreams ==
    [][(srcObject # NoStream /\ srcObject' # NoStream) => srcObject' = srcObject]_vars

\* C8: a toggle made with the active direction's cursor at i of N entries has
\* asked for the entry at (i + 1) mod N of that direction; when its acquisition
\* succeeds that cursor is (i + 1) mod N, currCamera is that entry, the direction
\* is the one the toggle was made in, and the other direction's cursor is left
\* alone (and is the one before the toggle, if no other acquisition succeeded
\* since).  A toggle is only made while streaming, with N > 1.
C8_ToggleAdvancesCursor ==
    [][\A k \in 1..Len(inflight) :
          (AcquireOk(k) /\ inflight[k].op = "toggle")
              => LET req == inflight[k]
                     dir == req.pre.currDirection
                     other == Opposite(dir)
                     n == Len(ListOf(dir))
                     j == (CursorOf(req.pre, dir) + 1) % n
                 IN  /\ req.pre.isStreaming /\ n > 1
                     /\ req.dev = ListOf(dir)[j + 1]
                     /\ CursorOf(Selection', dir) = j
                     /\ currCamera' = ListOf(dir)[j + 1]
                     /\ currDirection' = dir
                     /\ CursorOf(Selection', other) = CursorOf(Selection, other)
                     /\ req.clean =>
                            CursorOf(Selection', other) = CursorOf(req.pre, other)]_vars

\* C8: a toggle made at the last entry of the front list is pending.
C8_Witness ==
    \E k \in 1..Len(inflight) :
        /\ inflight[k].op = "toggle"
        /\ inflight[k].pre.currDirection = "Front"
        /\ inflight[k].pre.currFrontIndex = Len(frontCameras) - 1
        /\ inflight[k].dev = frontCameras[1]

\* C9: toggleCurrentCamera called while not streaming or with at most one entry
\* in the active direction, and switchCameraDirection called while not streaming
\* or with an empty list, change neither the selection nor the target and issue
\* no acquisition.
C9_GuardedCallsAreNoOps ==
    [][(\/ /\ ToggleCurrentCamera
           /\ (~isStreaming \/ Len(ListOf(currDirection)) <= 1)
        \/ /\ SwitchCameraDirection
           /\ (~isStreaming \/ Len(frontCameras) = 0 \/ Len(rearCameras) = 0))
           => (Selection' = Selection /\ inflight' = inflight)]_vars

\* C9: discovery is over and nothing streams, though there are lenses to toggle
\* and a direction to switch to.
C9_Witness ==
    /\ InitAtRest
    /\ ~isStreaming
    /\ Len(ListOf(currDirection)) > 1
    /\ Len(ListOf(Opposite(currDirection))) > 0

\* C10 (as claimed): a switch made while streaming with both lists non-empty
\* has asked for the entry at the other direction's cursor; when its
\* acquisition succeeds currDirection is the opposite of the one before the
\* switch, currCamera is that entry, and both cursors are the ones before the
\* switch (the old direction's, if no other acquisition succeeded since).
C10_SwitchChangesDirection ==
    [][\A k \in 1..Len(inflight) :
          (AcquireOk(k) /\ inflight[k].op = "switch")
              => LET req == inflight[k]
                     old == req.pre.currDirection
                     new == Opposite(old)
                     entry == At(ListOf(new), CursorOf(req.pre, new))
                 IN  /\ req.pre.isStreaming
                     /\ Len(frontCameras) > 0 /\ Len(rearCameras) > 0
                     /\ req.dev = entry
                     /\ currDirection' = new
                     /\ currCamera' = entry
                     /\ CursorOf(Selection', new) = CursorOf(req.pre, new)
                     /\ CursorOf(Selection', old) = CursorOf(Selection, old)
                     /\ req.clean =>
                            CursorOf(Selection', old) = CursorOf(req.pre, old)]_vars

\* The device the priority of C11 names for a call without a device: the last
\* streamed one, else the entry at the active direction's cursor, else the entry
\* at the other direction's cursor; NoCamera when there is no camera at all.
DeviceByPriority ==
    IF currCamera # NoCamera THEN currCamera
    ELSE IF Len(ListOf(currDirection)) > 0
         THEN At(ListOf(currDirection), CursorOf(Selection, currDirection))
    ELSE IF Len(ListOf(Opposite(currDirection))) > 0
         THEN At(ListOf(Opposite(currDirection)),
                 CursorOf(Selection, Opposite(currDirection)))
    ELSE NoCamera

\* C11: viewCameraStream called without a device asks for the device the
\* priority names; with no camera at all it reports an error, issues no
\* acquisition and leaves the selection and the target as they were.
C11_ResolvesByPriority ==
    [][(/\ ViewCameraStreamBody(NoCamera, currFrontIndex, currRearIndex, "view")
        /\ UNCHANGED <<currFrontIndex, currRearIndex, currDirection, currCamera>>)
           => IF DeviceByPriority = NoCamera
              THEN /\ NoCamerasError \in consoleErrors'
                   /\ Selection' = Selection
                   /\ inflight' = inflight
              ELSE /\ Len(inflight') = Len(inflight) + 1
                   /\ inflight'[Len(inflight')].dev = DeviceByPriority
                   /\ UNCHANGED consoleErrors]_vars

\* C11: a call without a device, made with no camera streamed yet, direction
\* Rear and no rear camera, is pending for a front camera.
C11_Witness ==
    \E k \in 1..Len(inflight) :
        /\ inflight[k].op = "view"
        /\ inflight[k].pre.currCamera = NoCamera
        /\ inflight[k].pre.currDirection = "Rear"
        /\ Len(rearCameras) = 0
        /\ inflight[k].dev = At(frontCameras, inflight[k].pre.currFrontIndex)
        /\ inflight[k].dev # NoCamera

\* C12 (as claimed): once a stream has been started in a direction (currCamera is
\* set and currDirection is that direction), that direction's cursor is a valid
\* index of its list.
C12_CursorInRange ==
    currCamera # NoCamera
        => /\ 0 <= CursorOf(Selection, currDirection)
           /\ CursorOf(Selection, currDirection) < Len(ListOf(currDirection))

\* C13: canToggleLenses() is true exactly when the list of the active direction
\* has more than one entry.
C13_CanToggleIffSeveral ==
    /\ currDirection \in {"Front", "Rear"}
    /\ CanToggleLenses <=> (Len(ListOf(currDirection)) > 1)

\* C13: a front camera streams and it is the only one, while there are two
\* rear cameras: the answer depends on the active direction.
C13_Witness ==
    /\ isStreaming
    /\ currDirection = "Front"
    /\ Len(frontCameras) = 1
    /\ Len(rearCameras) > 1

\* C14: canSwitchCameraDirections() is true exactly when neither list is empty.
C14_CanSwitchIffBoth ==
    CanSwitchCameraDirections <=> (Len(frontCameras) # 0 /\ Len(rearCameras) # 0)

\* C14: discovery has ended with cameras in one direction only.
C14_Witness ==
    /\ ipc = "idle"
    /\ Len(frontCameras) > 0
    /\ Len(rearCameras) = 0

\* The facingMode fallback probes not yet settled.
FallbackInFlight ==
    {d \in {"user", "environment"} :
        (IF d = "user" THEN userProbe ELSE envProbe) = "inflight"}

\* A fallback probe has been issued, settled or not.
FallbackIssued == userProbe # "none" \/ envProbe # "none"

\* C15: initialisation goes in order.  Enumeration is requested only by the
\* step in which the permission request succeeds; per-device probes are issued
\* only by the step in which enumeration returns; a fallback probe exists only
\* when no per-device probe or retry is pending; and loading has ended only
\* when no probe of either kind is pending.
C15_InitializationOrder ==
    [][/\ (ipc' = "enumerate" /\ ipc # "enumerate") => ipc = "permission"
       /\ (Len(probes') > Len(probes)) => ipc = "enumerate"
       /\ FallbackIssued' => (ProbesInFlight' = {} /\ Len(probes') > 0)
       /\ (FallbackIssued' /\ ~FallbackIssued) =>
              (ProbesInFlight # {} /\ ProbesInFlight' = {})
       /\ ~isLoading' => (ProbesInFlight' = {} /\ FallbackInFlight' = {})]_vars

\* C15: loading has ended after both fallback probes were issued and settled.
C15_Witness ==
    /\ ~isLoading
    /\ userProbe \in {"ok", "failed"}
    /\ envProbe \in {"ok", "failed"}
    /\ Len(allCameras) = MaxDevices

\* The entries of the two lists that carry the deviceId of enumerated device i.
Listed(i) ==
    {d \in {frontCameras[k] : k \in 1..Len(frontCameras)}
             \cup {rearCameras[k] : k \in 1..Len(rearCameras)} :
        d.deviceId = allCameras[i].deviceId}

\* Enumerated device i is in the list its label names, once, and in no other,
\* with workingConstraints that name its deviceId and carry width and height
\* or not, as dims says.
ListedWith(i, dims) ==
    /\ Cardinality(Listed(i)) = 1
    /\ \A d \in Listed(i) :
          /\ d.label = allCameras[i].label
          /\ d.workingConstraints.deviceId = allCameras[i].deviceId
          /\ d.workingConstraints.facingMode = NoId
          /\ d.workingConstraints.dims = dims
    /\ Occurrences(ListOf(DirectionOfLabel(allCameras[i].label)),
                   allCameras[i].deviceId) = 1
    /\ Occurrences(ListOf(Opposite(DirectionOfLabel(allCameras[i].label))),
                   allCameras[i].deviceId) = 0

\* C16: the retry follows a failed first probe and nothing else.  A device has
\* a retry, pending or settled, only if a probe failure has been logged, and
\* while the devices are probed a logged failure means that some device has
\* one; a device whose first probe succeeded has no retry and is listed with
\* width and height, one whose retry succeeded is listed without them, one
\* whose two probes failed or are not over is not listed; and once every
\* device's probes have settled the completion check has run.
C16_RetryPolicy ==
    /\ \A i \in 1..Len(allCameras) :
          /\ probes[i] \in {"retry", "okRetry", "failed"}
                 => CameraNotAvailableError \in consoleErrors
          /\ probes[i] = "ok" => ListedWith(i, TRUE)
          /\ probes[i] = "okRetry" => ListedWith(i, FALSE)
          /\ probes[i] \in {"first", "retry", "failed"} => Listed(i) = {}
    /\ (ipc = "probing" /\ CameraNotAvailableError \in consoleErrors)
           => \E i \in 1..Len(allCameras) : probes[i] \in {"retry", "okRetry", "failed"}
    /\ (Len(probes) > 0 /\ ProbesInFlight = {}) => ipc \in {"fallback", "idle"}

\* C16: discovery has ended with one device listed by its retry and another
\* one whose two probes failed.
C16_Witness ==
    /\ ipc = "idle"
    /\ \E i, j \in 1..Len(allCameras) : probes[i] = "okRetry" /\ probes[j] = "failed"

SyntheticIds == {"user", "environment"}

\* The positions of list that hold an enumerated device.
EnumeratedIn(list) == {k \in 1..Len(list) : list[k].deviceId \notin SyntheticIds}

\* C17: when at least one device was enumerated, a facingMode probe exists only
\* once every per-device probe has settled, and then the 'user' probe has been
\* issued exactly if no enumerated device is a front camera and the
\* 'environment' probe exactly if none is a rear camera (so none if there are
\* both); the synthetic 'user' descriptor is in frontCameras, once, exactly if
\* the 'user' probe succeeded, the synthetic 'environment' descriptor in
\* rearCameras exactly if the 'environment' probe succeeded, and neither is
\* ever in the other list.
C17_FallbackPolicy ==
    /\ FallbackIssued => (ProbesInFlight = {} /\ Len(probes) > 0)
    /\ (ProbesInFlight = {} /\ Len(probes) > 0)
           => /\ (userProbe # "none") <=> (EnumeratedIn(frontCameras) = {})
              /\ (envProbe # "none") <=> (EnumeratedIn(rearCameras) = {})
    /\ Occurrences(frontCameras, "user") = (IF userProbe = "ok" THEN 1 ELSE 0)
    /\ Occurrences(rearCameras, "environment") = (IF envProbe = "ok" THEN 1 ELSE 0)
    /\ Occurrences(rearCameras, "user") = 0
    /\ Occurrences(frontCameras, "environment") = 0
    /\ userProbe = "ok" => frontCameras[Len(frontCameras)].label = FrontCamLabel
    /\ envProbe = "ok" => rearCameras[Len(rearCameras)].label = BackCamLabel

\* C17: only rear cameras were enumerated; the 'user' probe was the only one
\* issued, and it succeeded.
C17_Witness ==
    /\ ipc = "idle"
    /\ EnumeratedIn(rearCameras) # {}
    /\ userProbe = "ok"
    /\ envProbe = "none"

\* C18 (as claimed): two enumerated devices in the same list stand there in the
\* order of the enumeration result.
C18_DiscoveryOrder ==
    \A dir \in {"Front", "Rear"} :
        \A k, l \in EnumeratedIn(ListOf(dir)) :
            k < l => FindIndex(allCameras, ListOf(dir)[k].deviceId)
                         < FindIndex(allCameras, ListOf(dir)[l].deviceId)

\* C19 (as claimed): a later call supersedes a pending acquisition.  When the
\* acquisition of a viewCameraStream call for one device succeeds after that of
\* a later call, for another device, has, the camera, the direction, the
\* cursors and the attached stream stay those of the later call.
C19_LaterCallSupersedes ==
    [][\A k \in 1..Len(inflight) :
          (/\ AcquireOk(k)
           /\ inflight[k].op = "view"
           /\ inflight[k].overtaken
           /\ inflight[k].dev.deviceId # currCamera.deviceId)
              => /\ currCamera' = currCamera
                 /\ currDirection' = currDirection
                 /\ currFrontIndex' = currFrontIndex
                 /\ currRearIndex' = currRearIndex
                 /\ srcObject' = srcObject]_vars

\* C20: once loading has ended it does not start again, and the three lists
\* stay as they are.
C20_ReadyIsFinal ==
    [][~isLoading => /\ ~isLoading'
                     /\ allCameras' = allCameras
                     /\ frontCameras' = frontCameras
                     /\ rearCameras' = rearCameras]_vars

\* C20: loading ended when the second facingMode probe settled, and a camera
\* has been streamed since.
C20_Witness ==
    /\ ~isLoading
    /\ userProbe \in {"ok", "failed"}
    /\ envProbe \in {"ok", "failed"}
    /\ isStreaming

\* The descriptors of the manager's two lists.
ListedCameras ==
    {frontCameras[k] : k \in 1..Len(frontCameras)}
        \cup {rearCameras[k] : k \in 1..Len(rearCameras)}

\* C21: while isStreaming is true a camera is current, a stream is attached,
\* currDirection is Rear exactly if the current camera's label contains "back"
\* in any case, and, the current camera being one of the manager's lists, the
\* cursor of currDirection is its position in that direction's list.
C21_SelectionConsistent ==
    isStreaming
        => /\ currCamera # NoCamera
           /\ srcObject # NoStream
           /\ (currDirection = "Rear")
                  <=> Includes(ToLowerCase(currCamera.label), BackWord)
           /\ currDirection \in {"Front", "Rear"}
           /\ currCamera \in ListedCameras
                  => /\ CursorOf(Selection, currDirection) >= 0
                     /\ CursorOf(Selection, currDirection) < Len(ListOf(currDirection))
                     /\ ListOf(currDirection)[CursorOf(Selection, currDirection) + 1]
                            = currCamera

\* C21: the second camera of a direction streams, after at least two calls.
C21_Witness ==
    /\ isStreaming
    /\ currCamera \in ListedCameras
    /\ CursorOf(Selection, currDirection) = 1
    /\ calls >= 2

====
